---- MODULE Spec2Model ----
(***************************************************************************)
(* State machine of backend/main.py: the WebAuthn registration and         *)
(* authentication endpoints over the in-memory dictionaries USERS and      *)
(* CREDENTIALS, and the JWT session token.                                 *)
(*                                                                         *)
(* Every endpoint is an `async def` whose only suspension point is         *)
(* `body = await request.json()`.  A request is therefore modelled in two  *)
(* steps: Start (the handler is entered and suspends on the body) and the  *)
(* handler step proper, which reads the body and runs to the response      *)
(* without yielding to the event loop.                                     *)
(***************************************************************************)
EXTENDS Integers, Sequences, FiniteSets, TLC

\* ---------------------------------------------------------------- bounds
MaxNonce == 3        \* challenges drawn in one run
MaxIds == 2          \* user handles drawn in one run
MaxCount == 1        \* largest signature counter an authenticator reports
MaxTime == 2         \* clock ticks in one run (one tick = one day)
ExpiryWindow == 1    \* the challenge expiry window of the specification, in ticks

\* ------------------------------------------------------- program constants
SECRET_KEY == "super-secret-key"
RP_ID == "localhost"
ORIGIN == "http://localhost:3000"
SessionDays == 1

Procs == {1, 2}
Users == {"alice", "bob"}
Endpoints == {"me", "register_options", "register_verify",
              "authenticate_options", "authenticate_verify"}

\* The authenticators of the environment: each holds one key pair and the
\* credential id it gave to it.
Authenticators == {[id |-> "C1", key |-> "K1"], [id |-> "C2", key |-> "K2"]}

\* The "credential" member of a verify request, as the webauthn library sees
\* it after decoding: clientDataJSON (type, challenge, origin) and the
\* authenticator data (rp id, user-verified flag, signature counter), with
\* the credential id and the key that is attested (registration) or that
\* signed the assertion (authentication).
NoCredential ==
    [type |-> "", challenge |-> 0, origin |-> "", rp_id |-> "", uv |-> FALSE,
     id |-> "", key |-> "", sign_count |-> 0]

\* Number of things wrong in a response sent to an endpoint that expects
\* clientDataJSON.type = type.
Defects(c, type) ==
    Cardinality({f \in {"type", "origin", "rp_id", "uv"} :
                    \/ f = "type" /\ c.type # type
                    \/ f = "origin" /\ c.origin # ORIGIN
                    \/ f = "rp_id" /\ c.rp_id # RP_ID
                    \/ f = "uv" /\ ~c.uv})

\* The clients of a run: the identities they name, the authenticators they
\* hold and how many things they get wrong in one response.
AllClients == [users |-> Users, authenticators |-> Authenticators, defects |-> 1]
OneUser == [users |-> {"alice"}, authenticators |-> Authenticators, defects |-> 1]
HonestAlice ==
    [users |-> {"alice"}, authenticators |-> {[id |-> "C1", key |-> "K1"]},
     defects |-> 0]

\* What clients K can put in the "username" member: "" stands for a missing
\* or empty one (both are falsy in `if not username`).
Usernames(K) == K.users \cup {""}

\* Responses clients K can send to an endpoint expecting `type`: they carry
\* one of the nonces `known` or 0 (a value no challenge ever had) and come
\* from one of their authenticators.
ClientCredentials(K, type, known) ==
    {c \in [type : {"webauthn.create", "webauthn.get"}, challenge : known \cup {0},
            origin : {ORIGIN, "http://evil.example"},
            rp_id : {RP_ID, "evil.example"}, uv : BOOLEAN,
            id : {a.id : a \in Authenticators},
            key : {a.key : a \in Authenticators},
            sign_count : 0..MaxCount] :
        /\ Defects(c, type) <= K.defects
        /\ \E a \in K.authenticators : a.id = c.id /\ a.key = c.key}

\* The bodies clients K can send to a verify endpoint: a username with a
\* response or with none, or no username at all.
VerifyBodies(K, type, known) ==
    [username : K.users, credential : ClientCredentials(K, type, known) \cup {NoCredential}]
        \cup {[username |-> "", credential |-> NoCredential]}

VARIABLES
    USERS,        \* main.py:36, dict username -> user record
    CREDENTIALS,  \* main.py:37, dict username -> credential record
    now,          \* the clock read by datetime.now and by jwt.decode
    issued,       \* history: the time each challenge was drawn at, in order
    captured,     \* history: the authentication request accepted most recently
    idCtr,        \* number of user handles drawn by secrets.token_bytes
    req,          \* per request slot: idle, or suspended in an endpoint
    last          \* the request handled last and its response

vars == <<USERS, CREDENTIALS, now, issued, captured, idCtr, req, last>>

\* ------------------------------------------------------------ the library
\* webauthn.verify_registration_response as called at main.py:97: the first
\* check that fails raises, "" is a verified response.
VerifyRegistration(credential, expected_challenge) ==
    IF credential.type # "webauthn.create" THEN "type"
    ELSE IF credential.challenge # expected_challenge THEN "challenge"
    ELSE IF credential.origin # ORIGIN THEN "origin"
    ELSE IF credential.rp_id # RP_ID THEN "rp_id"
    ELSE IF ~credential.uv THEN "user_verification"
    ELSE ""

\* webauthn.verify_authentication_response as called at main.py:146.  The
\* counter rule comes before the signature check; the signature verifies
\* when the key that signed is the stored public key.
VerifyAuthentication(credential, expected_challenge, public_key, current_sign_count) ==
    IF credential.type # "webauthn.get" THEN "type"
    ELSE IF credential.challenge # expected_challenge THEN "challenge"
    ELSE IF credential.origin # ORIGIN THEN "origin"
    ELSE IF credential.rp_id # RP_ID THEN "rp_id"
    ELSE IF ~credential.uv THEN "user_verification"
    ELSE IF /\ (credential.sign_count > 0 \/ current_sign_count > 0)
            /\ credential.sign_count <= current_sign_count THEN "sign_count"
    ELSE IF credential.key # public_key THEN "signature"
    ELSE ""

\* jose.jwt.encode with HS256: the claims and their MAC under the key.
Hmac(key, sub, exp) == [key |-> key, sub |-> sub, exp |-> exp]

JwtEncode(claims, key) ==
    [sub |-> claims.sub, exp |-> claims.exp, tag |-> Hmac(key, claims.sub, claims.exp)]

\* jose.jwt.decode: the MAC is recomputed over the claims carried, then the
\* "exp" claim is compared with the clock (expired when exp < now).
JwtDecode(token, key, t) ==
    IF token.tag # Hmac(key, token.sub, token.exp) THEN [ok |-> FALSE, sub |-> ""]
    ELSE IF token.exp < t THEN [ok |-> FALSE, sub |-> ""]
    ELSE [ok |-> TRUE, sub |-> token.sub]

\* ---------------------------------------------------------- session token
NoToken == [sub |-> "", exp |-> 0, tag |-> Hmac("", "", 0)]

\* Mutation: the lifetime is subtracted from the clock.
create_session_token_Expired(username) ==
    JwtEncode([sub |-> username, exp |-> now - SessionDays], SECRET_KEY)

create_session_token(username) ==
    JwtEncode([sub |-> username, exp |-> now + SessionDays], SECRET_KEY)

\* Mutation: the subject is read without decoding the token.
get_username_from_token_Unverified(token) == token.sub

\* None is modelled by "".
get_username_from_token(token) ==
    LET payload == JwtDecode(token, SECRET_KEY, now)
    IN  IF payload.ok THEN payload.sub ELSE ""

\* ------------------------------------------------------------- bookkeeping
NoOptions == [challenge |-> 0, user_id |-> 0, allow |-> {}]
NoArgs == [called |-> FALSE, expected_challenge |-> 0, public_key |-> "", sign_count |-> 0]
NoPrev == [ep |-> "", username |-> "", status |-> 0, challenge |-> 0, sign_count |-> 0]

NoRequest ==
    [proc |-> 0, ep |-> "", username |-> "", credential |-> NoCredential,
     cookie |-> NoToken, status |-> 0, detail |-> "", cause |-> "",
     token |-> NoToken, options |-> NoOptions, args |-> NoArgs,
     prev |-> NoPrev]

FinishEndpoints == {"register_verify", "authenticate_verify"}

Capture(username, credential) == [username |-> username, credential |-> credential]

NoCapture == Capture("", NoCredential)

Idle == [pc |-> "idle", ep |-> "", peer |-> FALSE]

Other(p) == CHOOSE q \in Procs : q # p

KnownNonces == 1..Len(issued)

\* The nonce of the next challenge: the library draws 64 random bytes, so
\* every challenge differs from all earlier ones.
NextNonce == Len(issued) + 1

Suspended(p, ep) == req[p].pc = "awaiting" /\ req[p].ep = ep

\* The handler of slot p returns: the response is recorded, the slot becomes
\* idle, and a request still suspended in the other slot has now overlapped
\* a completed one.
Respond(p, r) ==
    /\ last' = [r EXCEPT
            !.proc = p,
            !.prev = IF req[p].peer /\ last.proc = Other(p)
                     THEN [ep |-> last.ep, username |-> last.username,
                           status |-> last.status,
                           challenge |-> last.credential.challenge,
                           sign_count |-> last.credential.sign_count]
                     ELSE NoPrev]
    /\ req' = [q \in Procs |->
                 IF q = p THEN Idle
                 ELSE IF req[q].pc = "awaiting" THEN [req[q] EXCEPT !.peer = TRUE]
                 ELSE req[q]]

\* ---------------------------------------------------------------- actions
Init ==
    /\ USERS = <<>>
    /\ CREDENTIALS = <<>>
    /\ now = 0
    /\ issued = <<>>
    /\ captured = NoCapture
    /\ idCtr = 0
    /\ req = [p \in Procs |-> Idle]
    /\ last = NoRequest

\* A request arrives and its handler suspends in `await request.json()`.
\* `last` keeps a response until the next request arrives.
Start(p, ep) ==
    /\ req[p].pc = "idle"
    /\ req' = [req EXCEPT ![p] = [pc |-> "awaiting", ep |-> ep, peer |-> FALSE]]
    /\ last' = NoRequest
    /\ UNCHANGED <<USERS, CREDENTIALS, now, issued, captured, idCtr>>

Tick ==
    /\ now < MaxTime
    /\ now' = now + 1
    /\ UNCHANGED <<USERS, CREDENTIALS, issued, captured, idCtr, req, last>>

\* d[k] = v, on a dict modelled as a function.
Put(d, k, v) == [x \in DOMAIN d \cup {k} |-> IF x = k THEN v ELSE d[x]]

Reject(ep, username, credential, status, detail, cause) ==
    [NoRequest EXCEPT !.ep = ep, !.username = username, !.credential = credential,
                      !.status = status, !.detail = detail, !.cause = cause]

\* Cookies a client can present: none, the session token of the last
\* response, or that token with its subject or its expiry rewritten.
ClientCookies ==
    {NoToken} \cup
    (IF last.token = NoToken THEN {}
     ELSE {last.token, [last.token EXCEPT !.exp = @ + 1]}
          \cup {[last.token EXCEPT !.sub = u] : u \in Users})

\* GET /me.  The handler has no await: it runs in one step.
Me(p, K) ==
    /\ req[p].pc = "idle"
    /\ \E cookie \in ClientCookies :
         LET username == IF cookie # NoToken THEN get_username_from_token(cookie) ELSE ""
             r == [NoRequest EXCEPT !.ep = "me", !.cookie = cookie]
         IN  IF username = ""
             THEN Respond(p, [r EXCEPT !.status = 401, !.detail = "Not authenticated"])
             ELSE Respond(p, [r EXCEPT !.status = 200, !.username = username])
    /\ UNCHANGED <<USERS, CREDENTIALS, now, issued, captured, idCtr>>

\* Mutation: the dictionary is rebound to one holding this user alone.
RegisterOptionsUsers_Rebind(username, user_id, challenge) ==
    Put(<<>>, username, [id |-> user_id, name |-> username, challenge |-> challenge])

\* main.py:72 and 83: USERS[username] is bound to a new record that holds the
\* handle, the name and the registration challenge.
RegisterOptionsUsers(username, user_id, challenge) ==
    Put(USERS, username, [id |-> user_id, name |-> username, challenge |-> challenge])

\* POST /register/options
RegisterOptions(p, K) ==
    /\ Suspended(p, "register_options")
    /\ \E username \in Usernames(K) :
         IF username = ""
         THEN /\ Respond(p, Reject("register_options", username, NoCredential,
                                   400, "Username required", ""))
              /\ UNCHANGED <<USERS, CREDENTIALS, now, issued, captured, idCtr>>
         ELSE /\ idCtr < MaxIds
              /\ Len(issued) < MaxNonce
              /\ LET user_id == idCtr + 1
                     challenge == NextNonce
                 IN  /\ idCtr' = user_id
                     /\ USERS' = RegisterOptionsUsers(username, user_id, challenge)
                     /\ issued' = Append(issued,
                                     now)
                     /\ Respond(p, [NoRequest EXCEPT
                            !.ep = "register_options", !.username = username,
                            !.status = 200,
                            !.options = [challenge |-> challenge, user_id |-> user_id,
                                         allow |-> {}]])
              /\ UNCHANGED <<CREDENTIALS, now, captured>>

\* Mutation: the credential is stored before the response is verified.
RegisterVerifyCredentials_StoreFirst(username, credential, cause) ==
    Put(CREDENTIALS, username,
        [credential_id |-> credential.id, public_key |-> credential.key,
         sign_count |-> credential.sign_count])

\* main.py:104-109, or the except branch, which stores nothing.
RegisterVerifyCredentials(username, credential, cause) ==
    IF cause = ""
    THEN Put(CREDENTIALS, username,
             [credential_id |-> credential.id, public_key |-> credential.key,
              sign_count |-> credential.sign_count])
    ELSE CREDENTIALS

\* POST /register/verify
RegisterVerify(p, K) ==
    /\ Suspended(p, "register_verify")
    /\ \E body \in VerifyBodies(K, "webauthn.create", KnownNonces) :
         LET username == body.username
             credential == body.credential
         IN
         IF username = "" \/ credential = NoCredential
         THEN /\ Respond(p, Reject("register_verify", username, credential, 400,
                                   "Missing username or credential", ""))
              /\ UNCHANGED <<USERS, CREDENTIALS, now, issued, captured, idCtr>>
         ELSE IF username \notin DOMAIN USERS
         THEN /\ Respond(p, Reject("register_verify", username, credential, 400,
                                   "User not found", ""))
              /\ UNCHANGED <<USERS, CREDENTIALS, now, issued, captured, idCtr>>
         ELSE LET user == USERS[username]
                  cause == VerifyRegistration(credential, user.challenge)
                  r == [Reject("register_verify", username, credential, 400,
                               "Registration failed", cause)
                        EXCEPT !.args = [called |-> TRUE,
                                         expected_challenge |-> user.challenge,
                                         public_key |-> "", sign_count |-> 0]]
              IN  /\ CREDENTIALS' = RegisterVerifyCredentials(username, credential, cause)
                  /\ Respond(p, IF cause = ""
                                THEN [r EXCEPT !.status = 200, !.detail = "verified"]
                                ELSE r)
                  /\ UNCHANGED <<USERS, now, issued, captured, idCtr>>

\* None, as CREDENTIALS.get returns it for a missing key.
NoStoredCredential == [credential_id |-> "", public_key |-> "", sign_count |-> 0]

\* Mutation: a missing key yields a placeholder record, never None.
AuthenticateOptionsCred_Placeholder(username) ==
    IF username \in DOMAIN CREDENTIALS THEN CREDENTIALS[username]
    ELSE [credential_id |-> "C0", public_key |-> "", sign_count |-> 0]

\* main.py:118: cred = CREDENTIALS.get(username)
AuthenticateOptionsCred(username) ==
    IF username \in DOMAIN CREDENTIALS THEN CREDENTIALS[username]
    ELSE NoStoredCredential

\* Mutation: every stored credential id is allowed.
AuthenticateOptionsAllow_All(cred) ==
    {CREDENTIALS[u].credential_id : u \in DOMAIN CREDENTIALS}

\* main.py:123-128: allow_credentials
AuthenticateOptionsAllow(cred) == {cred.credential_id}

\* Mutation: a pending authentication challenge is kept.
AuthenticateOptionsUser_KeepFirst(user, challenge) ==
    IF "auth_challenge" \in DOMAIN user THEN user
    ELSE [id |-> user.id, name |-> user.name, challenge |-> user.challenge,
          auth_challenge |-> challenge]

\* main.py:131: the user record with "auth_challenge" set.
AuthenticateOptionsUser(user, challenge) ==
    [id |-> user.id, name |-> user.name, challenge |-> user.challenge,
     auth_challenge |-> challenge]

\* POST /authenticate/options
AuthenticateOptions(p, K) ==
    /\ Suspended(p, "authenticate_options")
    /\ \E username \in Usernames(K) :
         LET cred == AuthenticateOptionsCred(username)
         IN
         IF cred = NoStoredCredential
         THEN /\ Respond(p, Reject("authenticate_options", username, NoCredential,
                                   400, "No credential for user", ""))
              /\ UNCHANGED <<USERS, CREDENTIALS, now, issued, captured, idCtr>>
         ELSE IF username \notin DOMAIN USERS
         THEN \* USERS[username] at main.py:131 raises KeyError outside any try
              /\ Respond(p, Reject("authenticate_options", username, NoCredential,
                                   500, "Internal Server Error", "KeyError"))
              /\ UNCHANGED <<USERS, CREDENTIALS, now, issued, captured, idCtr>>
         ELSE /\ Len(issued) < MaxNonce
              /\ LET user == USERS[username]
                     challenge == NextNonce
                 IN  /\ USERS' = [USERS EXCEPT ![username] =
                                     AuthenticateOptionsUser(user, challenge)]
                     /\ issued' = Append(issued,
                                     now)
                     /\ Respond(p, [NoRequest EXCEPT
                            !.ep = "authenticate_options", !.username = username,
                            !.status = 200,
                            !.options = [challenge |-> challenge, user_id |-> 0,
                                         allow |-> AuthenticateOptionsAllow(cred)]])
              /\ UNCHANGED <<CREDENTIALS, now, captured, idCtr>>

\* Mutation: the reported counter is stored before the response is verified.
AuthenticateVerifyCredentials_WriteFirst(username, credential, cause) ==
    [CREDENTIALS EXCEPT ![username].sign_count = credential.sign_count]

\* Mutation: the new counter is written to a copy of the record and is lost.
AuthenticateVerifyCredentials_LostWrite(username, credential, cause) ==
    CREDENTIALS

\* Mutation: the server counts the authentications itself.
AuthenticateVerifyCredentials_Increment(username, credential, cause) ==
    IF cause = ""
    THEN [CREDENTIALS EXCEPT ![username].sign_count = @ + 1]
    ELSE CREDENTIALS

\* Mutation: a response that fails the counter rule revokes the credential.
AuthenticateVerifyCredentials_Revoke(username, credential, cause) ==
    IF cause = ""
    THEN [CREDENTIALS EXCEPT ![username].sign_count = credential.sign_count]
    ELSE IF cause = "sign_count"
    THEN [u \in DOMAIN CREDENTIALS \ {username} |-> CREDENTIALS[u]]
    ELSE CREDENTIALS

\* Mutation: the reported counter is stored when no challenge is pending.
AuthenticateVerifyCredentials_Unchallenged(username, credential, cause) ==
    IF cause \in {"", "KeyError"}
    THEN [CREDENTIALS EXCEPT ![username].sign_count = credential.sign_count]
    ELSE CREDENTIALS

\* main.py:155-156, or the except branch, which leaves the counter alone.
AuthenticateVerifyCredentials(username, credential, cause) ==
    IF cause = ""
    THEN [CREDENTIALS EXCEPT ![username].sign_count = credential.sign_count]
    ELSE CREDENTIALS

\* Mutation: the token is created before the response is verified.
AuthenticateVerifyToken_Always(username, cause) ==
    create_session_token(username)

\* main.py:157-166: the cookie set on the response.
AuthenticateVerifyToken(username, cause) ==
    IF cause = "" THEN create_session_token(username) ELSE NoToken

\* POST /authenticate/verify
AuthenticateVerify(p, K) ==
    /\ Suspended(p, "authenticate_verify")
    /\ \E body \in VerifyBodies(K, "webauthn.get", KnownNonces) :
         LET username == body.username
             credential == body.credential
         IN
         IF username = "" \/ credential = NoCredential
         THEN /\ Respond(p, Reject("authenticate_verify", username, credential, 400,
                                   "Missing username or credential", ""))
              /\ UNCHANGED <<USERS, CREDENTIALS, now, issued, captured, idCtr>>
         ELSE IF username \notin DOMAIN USERS \/ username \notin DOMAIN CREDENTIALS
         THEN /\ Respond(p, Reject("authenticate_verify", username, credential, 400,
                                   "User or credential not found", ""))
              /\ UNCHANGED <<USERS, CREDENTIALS, now, issued, captured, idCtr>>
         ELSE LET user == USERS[username]
                  cred == CREDENTIALS[username]
                  pending == "auth_challenge" \in DOMAIN user
                  \* user["auth_challenge"] is evaluated inside the try
                  cause == IF pending
                           THEN VerifyAuthentication(credential, user.auth_challenge,
                                                     cred.public_key, cred.sign_count)
                           ELSE "KeyError"
                  r == [Reject("authenticate_verify", username, credential, 400,
                               "Authentication failed", cause)
                        EXCEPT !.args = IF pending
                                        THEN [called |-> TRUE,
                                              expected_challenge |-> user.auth_challenge,
                                              public_key |-> cred.public_key,
                                              sign_count |-> cred.sign_count]
                                        ELSE NoArgs]
              IN  /\ CREDENTIALS' = AuthenticateVerifyCredentials(username, credential, cause)
                  /\ captured' = IF cause = ""
                                 THEN Capture(username, credential)
                                 ELSE captured
                  /\ Respond(p, [r EXCEPT
                            !.status = IF cause = "" THEN 200 ELSE 400,
                            !.detail = IF cause = "" THEN "authenticated" ELSE @,
                            !.token = AuthenticateVerifyToken(username, cause)])
                  /\ UNCHANGED <<USERS, now, issued, idCtr>>

\* The whole program: both request slots, every client, and the clock.
Next ==
    \/ \E p \in Procs, ep \in Endpoints \ {"me"} : Start(p, ep)
    \/ \E p \in Procs : Me(p, AllClients)
    \/ \E p \in Procs : RegisterOptions(p, AllClients)
    \/ \E p \in Procs : RegisterVerify(p, AllClients)
    \/ \E p \in Procs : AuthenticateOptions(p, AllClients)
    \/ \E p \in Procs : AuthenticateVerify(p, AllClients)
    \/ Tick

Spec == Init /\ [][Next]_vars

\* Slices of Spec that TLC explores exhaustively; every step of a slice is a
\* step of Next.
\* One request at a time, every client, the clock stopped.
NextSeq ==
    \/ \E ep \in Endpoints \ {"me"} : Start(1, ep)
    \/ Me(1, AllClients)
    \/ RegisterOptions(1, AllClients)
    \/ RegisterVerify(1, AllClients)
    \/ AuthenticateOptions(1, AllClients)
    \/ AuthenticateVerify(1, AllClients)

SpecSeq == Init /\ [][NextSeq]_vars

\* One request at a time of one identity, every kind of response, the clock
\* stopped.
NextOne ==
    \/ \E ep \in Endpoints \ {"me"} : Start(1, ep)
    \/ Me(1, OneUser)
    \/ RegisterOptions(1, OneUser)
    \/ RegisterVerify(1, OneUser)
    \/ AuthenticateOptions(1, OneUser)
    \/ AuthenticateVerify(1, OneUser)

SpecOne == Init /\ [][NextOne]_vars

\* Overlapping requests of one identity with well-formed responses, the
\* clock stopped.
NextConc ==
    \/ \E p \in Procs, ep \in Endpoints \ {"me"} : Start(p, ep)
    \/ \E p \in Procs : Me(p, HonestAlice)
    \/ \E p \in Procs : RegisterOptions(p, HonestAlice)
    \/ \E p \in Procs : RegisterVerify(p, HonestAlice)
    \/ \E p \in Procs : AuthenticateOptions(p, HonestAlice)
    \/ \E p \in Procs : AuthenticateVerify(p, HonestAlice)

SpecConc == Init /\ [][NextConc]_vars

\* One request at a time of one identity with well-formed responses, the
\* clock running.
NextClock ==
    \/ \E ep \in Endpoints \ {"me"} : Start(1, ep)
    \/ Me(1, HonestAlice)
    \/ RegisterOptions(1, HonestAlice)
    \/ RegisterVerify(1, HonestAlice)
    \/ AuthenticateOptions(1, HonestAlice)
    \/ AuthenticateVerify(1, HonestAlice)
    \/ Tick

SpecClock == Init /\ [][NextClock]_vars

\* ================================================================ claims
\* This step is the handler of endpoint ep returning its response.
Finished(ep) == last' # last /\ last'.ep = ep

\* Response c answers the pending authentication challenge of u from the
\* expected origin and relying party, with user verification, signed by the
\* key stored for u.
AssertionValid(c, u) ==
    /\ u \in DOMAIN USERS
    /\ u \in DOMAIN CREDENTIALS
    /\ "auth_challenge" \in DOMAIN USERS[u]
    /\ c.type = "webauthn.get"
    /\ c.challenge = USERS[u].auth_challenge
    /\ c.origin = ORIGIN
    /\ c.rp_id = RP_ID
    /\ c.uv
    /\ c.key = CREDENTIALS[u].public_key

\* Response c answers the pending registration challenge of u from the
\* expected origin and relying party, with user verification.
AttestationValid(c, u) ==
    /\ u \in DOMAIN USERS
    /\ c.type = "webauthn.create"
    /\ c.challenge = USERS[u].challenge
    /\ c.origin = ORIGIN
    /\ c.rp_id = RP_ID
    /\ c.uv

CounterFresh(reported, stored) == reported > stored \/ (reported = 0 /\ stored = 0)

\* C1: an issued challenge is consumed at most once: an Authentication Finish
\* that answers the challenge an accepted Authentication Finish of the same
\* identity has already used is rejected.
C1_ChallengeConsumedOnce ==
    [][(/\ Finished("authenticate_verify")
        /\ captured # NoCapture
        /\ last'.username = captured.username
        /\ last'.credential.challenge = captured.credential.challenge)
       => last'.status = 400]_vars

\* C2: an Authentication Finish whose reported counter is at most the stored
\* counter, the two not both 0, is rejected, sets no session token and leaves
\* the credentials as they were; when nothing else is wrong with the response
\* the failure reported is the counter's.
C2_ReplayRejected ==
    [][\A u \in Users :
        (/\ Finished("authenticate_verify")
         /\ last'.username = u
         /\ last'.credential # NoCredential
         /\ u \in DOMAIN CREDENTIALS
         /\ last'.credential.sign_count <= CREDENTIALS[u].sign_count
         /\ CREDENTIALS[u].sign_count > 0)
        => /\ last'.status = 400
           /\ last'.token = NoToken
           /\ CREDENTIALS' = CREDENTIALS
           /\ AssertionValid(last'.credential, u) => last'.cause = "sign_count"]_vars

\* C2 witness: a response reporting counter 1 against stored counter 1 was
\* rejected for its counter.
C2_Witness ==
    /\ last.ep = "authenticate_verify"
    /\ last.status = 400
    /\ last.cause = "sign_count"
    /\ last.credential.sign_count = 1
    /\ last.username \in DOMAIN CREDENTIALS
    /\ CREDENTIALS[last.username].sign_count = 1

\* C3: of two overlapping Authentication Finish requests of one identity that
\* are both accepted, the second was compared with the counter the first
\* committed (never with the value stored before it), passed the rule against
\* it, and its own counter is the one now stored.
C3_CounterCriticalSection ==
    (/\ last.ep = "authenticate_verify"
     /\ last.status = 200
     /\ last.prev.ep = "authenticate_verify"
     /\ last.prev.status = 200
     /\ last.prev.username = last.username)
    => /\ last.args.sign_count = last.prev.sign_count
       /\ CounterFresh(last.credential.sign_count, last.prev.sign_count)
       /\ CREDENTIALS[last.username].sign_count = last.credential.sign_count

\* C3 witness: two overlapping requests were accepted one after the other,
\* the second with a larger counter than the first.
C3_Witness ==
    /\ last.ep = "authenticate_verify"
    /\ last.status = 200
    /\ last.prev.ep = "authenticate_verify"
    /\ last.prev.status = 200
    /\ last.prev.username = last.username
    /\ last.credential.sign_count > last.prev.sign_count

\* C4: of two overlapping Finish requests that answer the same challenge of
\* the same identity, at most one is accepted.
C4_OneConcurrentFinishAccepted ==
    ~(/\ last.ep \in FinishEndpoints
      /\ last.status = 200
      /\ last.prev.ep = last.ep
      /\ last.prev.status = 200
      /\ last.prev.username = last.username
      /\ last.prev.challenge = last.credential.challenge)

\* C5: a Finish step that answers a challenge issued more than ExpiryWindow
\* ago is rejected.
C5_ExpiredChallengeRejected ==
    [][\A ep \in FinishEndpoints :
        (/\ Finished(ep)
         /\ last'.credential.challenge \in KnownNonces
         /\ now - issued[last'.credential.challenge] > ExpiryWindow)
        => last'.status = 400]_vars

\* C6: a Registration Finish whose response does not verify against the
\* pending registration challenge, or that fails for any other reason, is
\* answered with a failure and leaves CREDENTIALS exactly as it was.
C6_RegistrationFailureStoresNothing ==
    [][(/\ Finished("register_verify")
        /\ \/ ~AttestationValid(last'.credential, last'.username)
           \/ last'.status # 200)
       => /\ last'.status = 400
          /\ CREDENTIALS' = CREDENTIALS]_vars

\* C6 witness: a response embedding the wrong challenge was rejected while a
\* credential was stored for the identity.
C6_Witness ==
    /\ last.ep = "register_verify"
    /\ last.status = 400
    /\ last.cause = "challenge"
    /\ last.username \in DOMAIN CREDENTIALS

\* C7: a response carries a session token only when it is the success
\* response of an Authentication Finish whose assertion answered the pending
\* challenge, was signed by the stored key and passed the counter rule, and
\* the token names that identity; no failure response carries a token.
C7_TokenOnlyAfterSuccess ==
    [][last' # last =>
        /\ last'.token # NoToken =>
              /\ last'.ep = "authenticate_verify"
              /\ last'.status = 200
              /\ last'.token.sub = last'.username
              /\ AssertionValid(last'.credential, last'.username)
              /\ CounterFresh(last'.credential.sign_count,
                              CREDENTIALS[last'.username].sign_count)
        /\ last'.status # 200 => last'.token = NoToken]_vars

\* C7 witness: an Authentication Finish succeeded and set a token.
C7_Witness ==
    /\ last.ep = "authenticate_verify"
    /\ last.status = 200
    /\ last.token # NoToken

\* C8: an otherwise valid Authentication Finish with stored and reported
\* counter both 0 succeeds, sets a session token for the identity, and the
\* stored counter is still 0.
C8_ZeroCountersTolerated ==
    [][\A u \in Users :
        (/\ Finished("authenticate_verify")
         /\ last'.username = u
         /\ AssertionValid(last'.credential, u)
         /\ last'.credential.sign_count = 0
         /\ CREDENTIALS[u].sign_count = 0)
        => /\ last'.status = 200
           /\ last'.token # NoToken
           /\ get_username_from_token(last'.token) = u
           /\ CREDENTIALS'[u].sign_count = 0]_vars

\* C8 witness: an Authentication Finish reporting 0 was accepted against a
\* stored 0.
C8_Witness ==
    /\ last.ep = "authenticate_verify"
    /\ last.status = 200
    /\ last.credential.sign_count = 0
    /\ last.args.sign_count = 0
    /\ CREDENTIALS[last.username].sign_count = 0
    /\ last.token # NoToken

\* C9: an accepted Authentication Finish whose reported counter exceeds the
\* stored one changes CREDENTIALS in the counter of that identity alone, which
\* becomes the reported counter, and sets a token that validates to that
\* identity.
C9_CounterAdvances ==
    [][\A u \in Users :
        (/\ Finished("authenticate_verify")
         /\ last'.username = u
         /\ last'.status = 200
         /\ u \in DOMAIN CREDENTIALS
         /\ last'.credential.sign_count > CREDENTIALS[u].sign_count)
        => /\ CREDENTIALS' =
                [CREDENTIALS EXCEPT ![u].sign_count = last'.credential.sign_count]
           /\ get_username_from_token(last'.token) = u]_vars

\* C9 witness: the counter of one identity went from 0 to 1 while another
\* identity had a credential.
C9_Witness ==
    /\ last.ep = "authenticate_verify"
    /\ last.status = 200
    /\ last.args.sign_count = 0
    /\ last.credential.sign_count = 1
    /\ CREDENTIALS[last.username].sign_count = 1
    /\ \E v \in DOMAIN CREDENTIALS : v # last.username

\* C10: once an assertion with counter c >= 1 was accepted, an Authentication
\* Finish that submits the same assertion for the same identity again is
\* rejected, sets no token, and the stored counter is c afterwards.
C10_ResubmissionRejected ==
    [][(/\ Finished("authenticate_verify")
        /\ captured # NoCapture
        /\ captured.credential.sign_count >= 1
        /\ last'.username = captured.username
        /\ last'.credential = captured.credential)
       => /\ last'.status = 400
          /\ last'.token = NoToken
          /\ CREDENTIALS'[captured.username].sign_count
                = captured.credential.sign_count]_vars

\* C11: an Authentication Begin that names an identity with no stored
\* credential (a missing username included) is answered with the failure
\* "No credential for user", returns no options, draws no challenge and
\* changes neither USERS nor CREDENTIALS.
C11_UnknownIdentityRejected ==
    [][\A u \in Users \cup {""} :
        (/\ Finished("authenticate_options")
         /\ last'.username = u
         /\ u \notin DOMAIN CREDENTIALS)
        => /\ last'.status = 400
           /\ last'.detail = "No credential for user"
           /\ last'.options = NoOptions
           /\ UNCHANGED <<USERS, CREDENTIALS, issued, idCtr>>]_vars

\* C11 witness: an Authentication Begin was refused for an identity that has
\* begun a registration and has no credential.
C11_Witness ==
    /\ last.ep = "authenticate_options"
    /\ last.status = 400
    /\ last.username \in DOMAIN USERS
    /\ last.username \notin DOMAIN CREDENTIALS

\* C12: a Begin step returns a nonce that differs from every earlier one and
\* makes it the only pending challenge of its purpose for the identity, and a
\* Finish step whose response carries an earlier nonce than the pending one of
\* its purpose is rejected and stores nothing.
C12_NewIssuanceInvalidatesPrior ==
    [][\A u \in Users :
        /\ (/\ Finished("register_options")
            /\ last'.username = u
            /\ last'.status = 200)
           => /\ last'.options.challenge \notin KnownNonces
              /\ USERS'[u].challenge = last'.options.challenge
        /\ (/\ Finished("authenticate_options")
            /\ last'.username = u
            /\ last'.status = 200)
           => /\ last'.options.challenge \notin KnownNonces
              /\ USERS'[u].auth_challenge = last'.options.challenge
        /\ (/\ Finished("register_verify")
            /\ last'.username = u
            /\ u \in DOMAIN USERS
            /\ last'.credential.challenge \in KnownNonces
            /\ last'.credential.challenge # USERS[u].challenge)
           => /\ last'.status = 400
              /\ CREDENTIALS' = CREDENTIALS
        /\ (/\ Finished("authenticate_verify")
            /\ last'.username = u
            /\ u \in DOMAIN USERS
            /\ u \in DOMAIN CREDENTIALS
            /\ "auth_challenge" \in DOMAIN USERS[u]
            /\ last'.credential.challenge \in KnownNonces
            /\ last'.credential.challenge # USERS[u].auth_challenge)
           => /\ last'.status = 400
              /\ last'.token = NoToken
              /\ CREDENTIALS' = CREDENTIALS]_vars

\* C12 witness: the registration challenge is still nonce 1, so nonces 2 and
\* 3 were both drawn by Authentication Begin steps of this identity; a Finish
\* that answered nonce 2 was rejected for its challenge while 3 is pending.
C12_Witness ==
    /\ last.ep = "authenticate_verify"
    /\ last.status = 400
    /\ last.cause = "challenge"
    /\ last.credential.challenge = 2
    /\ last.username \in DOMAIN USERS
    /\ USERS[last.username].challenge = 1
    /\ "auth_challenge" \in DOMAIN USERS[last.username]
    /\ USERS[last.username].auth_challenge = 3

\* C13: a Registration Begin for an identity that already has a user handle
\* returns that handle and leaves it stored.
C13_HandleStable ==
    [][\A u \in Users :
        (/\ Finished("register_options")
         /\ last'.username = u
         /\ last'.status = 200
         /\ u \in DOMAIN USERS)
        => /\ last'.options.user_id = USERS[u].id
           /\ USERS'[u].id = USERS[u].id]_vars

\* C14: a token just minted for an identity validates to that identity; its
\* expiry is the minting time plus the session lifetime; a minted token
\* presented while the clock is not past its expiry validates to its
\* identity, and one presented later is invalid; a token whose tag does not
\* match the claims it carries is invalid at any time.
C14_TokenRoundTrip ==
    [][/\ \A u \in Users : get_username_from_token(create_session_token(u)) = u
       /\ (Finished("authenticate_verify") /\ last'.status = 200)
          => last'.token.exp = now + SessionDays
       /\ (Finished("me") /\ last'.cookie # NoToken)
          => IF last'.cookie.tag
                    # Hmac(SECRET_KEY, last'.cookie.sub, last'.cookie.exp)
             THEN last'.status = 401
             ELSE IF now > last'.cookie.exp
             THEN last'.status = 401
             ELSE last'.status = 200 /\ last'.username = last'.cookie.sub]_vars

\* C14 witness: a token the server minted was presented after its expiry and
\* was refused.
C14_Witness ==
    /\ last.ep = "me"
    /\ last.status = 401
    /\ last.cookie # NoToken
    /\ last.cookie.tag = Hmac(SECRET_KEY, last.cookie.sub, last.cookie.exp)
    /\ last.cookie.exp < now

\* C15: an Authentication Begin for an identity with a stored credential
\* succeeds and its allow-list is exactly the credential id stored for that
\* identity when the handler runs.
C15_AllowListIsStoredCredential ==
    [][\A u \in Users :
        (/\ Finished("authenticate_options")
         /\ last'.username = u
         /\ u \in DOMAIN CREDENTIALS)
        => /\ last'.status = 200
           /\ last'.options.allow = {CREDENTIALS[u].credential_id}]_vars

\* C15 witness: options were returned for one identity while another identity
\* held a credential with a different id.
C15_Witness ==
    /\ last.ep = "authenticate_options"
    /\ last.status = 200
    /\ last.options.allow = {CREDENTIALS[last.username].credential_id}
    /\ \E v \in DOMAIN CREDENTIALS :
         CREDENTIALS[v].credential_id # CREDENTIALS[last.username].credential_id

\* C16: an identity that has a credential keeps one in every step; its
\* credential id and public key change only in a successful Registration
\* Finish for that identity, and its counter only there or in a successful
\* Authentication Finish for that identity.
C16_CredentialsOwnedByFlows ==
    [][\A u \in DOMAIN CREDENTIALS :
        /\ u \in DOMAIN CREDENTIALS'
        /\ (\/ CREDENTIALS'[u].credential_id # CREDENTIALS[u].credential_id
            \/ CREDENTIALS'[u].public_key # CREDENTIALS[u].public_key)
           => /\ Finished("register_verify")
              /\ last'.status = 200
              /\ last'.username = u
        /\ CREDENTIALS'[u].sign_count # CREDENTIALS[u].sign_count
           => /\ Finished("register_verify") \/ Finished("authenticate_verify")
              /\ last'.status = 200
              /\ last'.username = u]_vars

\* C16 witness: an identity registered a second time with another
\* authenticator holds the new credential id and key.
C16_Witness ==
    /\ last.ep = "register_verify"
    /\ last.status = 200
    /\ last.credential.id = "C2"
    /\ CREDENTIALS[last.username].credential_id = "C2"
    /\ CREDENTIALS[last.username].public_key = "K2"
    /\ captured.username = last.username
    /\ captured.credential.id = "C1"

\* C17: a Registration Finish for an identity with no user record (no
\* Registration Begin came before), and an Authentication Finish for a
\* registered identity whose record holds no authentication challenge, are
\* answered with status 400, set no token and leave USERS and CREDENTIALS as
\* they were.
C17_FinishWithoutChallengeRejected ==
    [][\A u \in Users :
        /\ (/\ Finished("register_verify")
            /\ last'.username = u
            /\ u \notin DOMAIN USERS)
           => /\ last'.status = 400
              /\ last'.token = NoToken
              /\ UNCHANGED <<USERS, CREDENTIALS>>
        /\ (/\ Finished("authenticate_verify")
            /\ last'.username = u
            /\ u \in DOMAIN USERS
            /\ u \in DOMAIN CREDENTIALS
            /\ "auth_challenge" \notin DOMAIN USERS[u])
           => /\ last'.status = 400
              /\ last'.token = NoToken
              /\ UNCHANGED <<USERS, CREDENTIALS>>]_vars

\* C17 witness: an Authentication Finish with a response for a registered
\* identity was rejected because no authentication challenge was pending.
C17_Witness ==
    /\ last.ep = "authenticate_verify"
    /\ last.status = 400
    /\ last.cause = "KeyError"
    /\ last.credential # NoCredential
    /\ last.username \in DOMAIN CREDENTIALS
    /\ "auth_challenge" \notin DOMAIN USERS[last.username]

\* C18: a Registration Begin for an identity with a pending authentication
\* challenge leaves that challenge pending.
C18_PurposesIndependent ==
    [][\A u \in Users :
        (/\ Finished("register_options")
         /\ last'.username = u
         /\ last'.status = 200
         /\ u \in DOMAIN USERS
         /\ "auth_challenge" \in DOMAIN USERS[u])
        => /\ "auth_challenge" \in DOMAIN USERS'[u]
           /\ USERS'[u].auth_challenge = USERS[u].auth_challenge]_vars

\* C19: every identity with an entry in CREDENTIALS has one in USERS, and no
\* request was answered with an internal error.
C19_CredentialsHaveUsers ==
    /\ DOMAIN CREDENTIALS \subseteq DOMAIN USERS
    /\ last.status # 500

\* C19 witness: two identities hold credentials and an Authentication Begin
\* has written its challenge into the user record of one of them.
C19_Witness ==
    /\ Cardinality(DOMAIN CREDENTIALS) = 2
    /\ last.ep = "authenticate_options"
    /\ last.status = 200
    /\ USERS[last.username].auth_challenge = last.options.challenge

====
